---- MODULE Spec2Model ----
(***************************************************************************)
(* A model of src/db_util.py: the connection scope get_db, the schema      *)
(* initialiser init_db, save_inv_extraction, getInvoiceById and            *)
(* get_invoices_by_vendor, over an SQLite store as the sqlite3 module      *)
(* drives it (implicit transaction before INSERT/DELETE only, every other  *)
(* statement in autocommit, one writer at a time, rollback on close).      *)
(***************************************************************************)
EXTENDS Integers, Sequences, FiniteSets, TLC

(***************************************************************************)
(* Python values.  A value is a record [t, v]: t is the Python type and v  *)
(* the value's text (a number is kept as its literal, so that a number and *)
(* the text of a number are different values).                             *)
(***************************************************************************)
None     == [t |-> "NoneType", v |-> ""]
PyStr(s)   == [t |-> "str", v |-> s]
PyInt(s)   == [t |-> "int", v |-> s]
PyFloat(s) == [t |-> "float", v |-> s]
PyList(xs) == [t |-> "list", v |-> xs]
PyDict(d)  == [t |-> "dict", v |-> d]
PyTuple(xs) == [t |-> "tuple", v |-> xs]
\* a raised exception, by its class
Exception(name) == [t |-> "exception", v |-> name]

NaN      == PyFloat("nan")
EmptyDict == PyDict(<<>>)
EmptyList == PyList(<<>>)

\* bool(x), as `if invoice_id:` and `if not row:` evaluate it
Truthy(x) ==
    CASE x.t = "NoneType" -> FALSE
      [] x.t = "str"      -> x.v /= ""
      [] x.t = "int"      -> x.v /= "0"
      [] x.t = "float"    -> x.v /= "0.0"
      [] x.t = "list"     -> x.v /= <<>>
      [] x.t = "dict"     -> DOMAIN x.v /= {}
      [] x.t = "tuple"    -> x.v /= <<>>
      [] OTHER            -> TRUE

\* d.get(k, default) on a dict d
DictGet(d, k, default) == IF k \in DOMAIN d.v THEN d.v[k] ELSE default

\* x has a .get method (x is a mapping); x.get on anything else raises
\* AttributeError
HasGet(x) == x.t = "dict"

\* `for item in x` can start (TypeError otherwise).  The inputs drawn below
\* are lists or None.
Iterable(x) == x.t = "list"

\* a == b in Python: 2 == 2.0, nan != nan
IsNumber(x) == x.t \in {"int", "float"}
AsFloat(x)  == IF x.t = "int" THEN x.v \o ".0" ELSE x.v
PyEq(a, b) ==
    IF IsNumber(a) /\ IsNumber(b)
    THEN a /= NaN /\ b /= NaN /\ AsFloat(a) = AsFloat(b)
    ELSE a = b

(***************************************************************************)
(* SQLite values and column affinity.  A stored value is NULL, TEXT,       *)
(* INTEGER or REAL; sqlite3 reads them back as None, str, int and float,   *)
(* so the Python records above stand for them too.                         *)
(***************************************************************************)
\* the literals of the model's value universe that SQLite reads as numbers
IntLiterals  == {"0", "2", "5", "7", "100"}
RealLiterals == {"0.0", "2.0", "5.0", "7.0", "100.0", "0.9", "5.5", "10.0", "123.45"}

\* sqlite3 can bind x as a statement parameter (a list or dict raises
\* ProgrammingError)
Bindable(x) == x.t \in {"NoneType", "str", "int", "float"}

\* the SQLite value a bound parameter becomes: a float NaN is bound as NULL
Bind(x) == IF x = NaN THEN None ELSE x

\* a column declared TEXT stores a number as its text
TextAffinity(x) == IF IsNumber(x) THEN PyStr(x.v) ELSE x

\* a column declared REAL stores an integer, and text that reads as a
\* number, as a floating point number; other text stays text
RealAffinity(x) ==
    CASE x.t = "int" -> PyFloat(x.v \o ".0")
      [] x.t = "str" /\ x.v \in IntLiterals  -> PyFloat(x.v \o ".0")
      [] x.t = "str" /\ x.v \in RealLiterals -> PyFloat(x.v)
      [] OTHER -> x

Affinity(type, x) == IF type = "TEXT" THEN TextAffinity(x) ELSE RealAffinity(x)

\* column = ? in a WHERE clause on a TEXT column: the parameter takes the
\* column's affinity, and NULL equals nothing
SqlTextEq(col, param) ==
    /\ col /= None
    /\ Bind(param) /= None
    /\ col = TextAffinity(Bind(param))

(***************************************************************************)
(* The schema (init_db).                                                   *)
(***************************************************************************)
TableNames == {"invoices", "confidences", "items"}

\* the eight columns of invoices and of confidences, in declaration order
InvoiceFields == <<"InvoiceId", "VendorName", "InvoiceDate",
                   "BillingAddressRecipient", "ShippingAddress",
                   "SubTotal", "ShippingCost", "InvoiceTotal">>
InvoiceTypes == <<"TEXT", "TEXT", "TEXT", "TEXT", "TEXT", "REAL", "REAL", "REAL">>
ConfidenceTypes == <<"TEXT", "REAL", "REAL", "REAL", "REAL", "REAL", "REAL", "REAL">>

\* the columns of items after the AUTOINCREMENT id.  The id is not kept: it
\* only grows, so a table kept in insertion order is a table in id order,
\* and no statement of the module reads the id.
ItemFields == <<"InvoiceId", "Description", "Name", "Quantity", "UnitPrice", "Amount">>
ItemTypes == <<"TEXT", "TEXT", "TEXT", "REAL", "REAL", "REAL">>

\* A store: the tables that exist and their rows in rowid order.  A row is
\* the tuple of its column values.
EmptyDb == [tables |-> {}, invoices |-> <<>>, confidences |-> <<>>, items |-> <<>>]

\* the row a parameter tuple is stored as
StoredRow(types, params) ==
    [i \in 1..Len(params) |-> Affinity(types[i], Bind(params[i]))]

AllBindable(params) == \A i \in 1..Len(params) : Bindable(params[i])

\* faulty variant: a plain INSERT that keeps the old row
InsertOrReplace_Insert(rows, new) == Append(rows, new)

\* INSERT OR REPLACE on a table whose first column is the primary key: a row
\* with the same key is deleted and the new row gets the next rowid
InsertOrReplace(rows, new) ==
    Append(SelectSeq(rows, LAMBDA r : r[1] /= new[1]), new)

\* faulty variant: the old items are not deleted
DeleteWhereId_None(rows, id) == rows

\* DELETE FROM items WHERE InvoiceId = ?
DeleteWhereId(rows, id) == SelectSeq(rows, LAMBDA r : ~SqlTextEq(r[1], id))

\* faulty variant: the WHERE clause is missing
SelectWhereId_All(rows, id) == rows

\* SELECT ... WHERE InvoiceId = ?, all rows in rowid order
SelectWhereId(rows, id) == SelectSeq(rows, LAMBDA r : SqlTextEq(r[1], id))

\* faulty variant: the invoices row is not written
WriteInvoices_Skipped(d, new) == d

\* INSERT OR REPLACE INTO invoices
WriteInvoices(d, new) == [d EXCEPT !.invoices = InsertOrReplace(@, new)]

\* INSERT OR REPLACE INTO confidences
WriteConfidences(d, new) == [d EXCEPT !.confidences = InsertOrReplace(@, new)]

\* faulty variant: the vendor filter is missing
SelectIdsByVendor_All(rows, vendor_name) == [i \in 1..Len(rows) |-> rows[i][1]]

\* select InvoiceId from invoices where VendorName = ?, in rowid order
SelectIdsByVendor(rows, vendor_name) ==
    LET hit == SelectSeq(rows, LAMBDA r : SqlTextEq(r[2], vendor_name))
    IN  [i \in 1..Len(hit) |-> hit[i][1]]

\* the position of column name in a column list
FieldIndex(fields, name) == CHOOSE i \in 1..Len(fields) : fields[i] = name

\* the dict getInvoiceById builds of an items row (Description .. Amount are
\* item[0] .. item[4] of the five selected columns, the row's columns 2..6)
ItemDict(item) ==
    PyDict([k \in {"Description", "Name", "Quantity", "UnitPrice", "Amount"} |->
              item[FieldIndex(ItemFields, k)]])

\* the dict getInvoiceById returns: row[0] .. row[7] and the items
InvoiceDict(r, irows) ==
    PyDict([k \in {InvoiceFields[i] : i \in 1..8} \cup {"Items"} |->
              IF k = "Items"
              THEN PyList([i \in 1..Len(irows) |-> ItemDict(irows[i])])
              ELSE r.v[FieldIndex(InvoiceFields, k)]])

(***************************************************************************)
(* State.  Callers are the threads of control that call the module; each   *)
(* runs one operation at a time, one statement per step.                   *)
(***************************************************************************)
Callers == {"c1", "c2"}

VARIABLES
    db,          \* the committed store (the file invoices.db)
    txn,         \* per caller: the open write transaction of its connection
    pc,          \* per caller: the statement it is at
    op,          \* per caller: the operation it was asked to run
    arg,         \* per caller: that operation's argument
    frames,      \* per caller: the functions on its call stack
    conns,       \* per caller: its open get_db scopes, innermost last
    invoice_id,  \* per caller: the local invoice_id
    row,         \* per caller: getInvoiceById's row
    items_rows,  \* per caller: getInvoiceById's items_rows
    rows,        \* per caller: get_invoices_by_vendor's rows (the ids)
    idx,         \* per caller: the position of the running for loop
    invoices,    \* per caller: get_invoices_by_vendor's list invoices
    ret,         \* per caller: the value being returned or raised
    last,        \* history: per stored InvoiceId, the result last saved
    db0          \* history: per caller, the committed store when its
                 \* operation was called

vars == <<db, txn, pc, op, arg, frames, conns, invoice_id, row, items_rows,
          rows, idx, invoices, ret, last, db0>>

locals == <<invoice_id, row, items_rows, rows, idx, invoices>>

NoTxn == [active |-> FALSE, db |-> EmptyDb]

Top(s) == s[Len(s)]
Pop(s) == SubSeq(s, 1, Len(s) - 1)

\* what caller p's connection reads: its own uncommitted writes, else the
\* committed store
View(p) == IF txn[p].active THEN txn[p].db ELSE db

\* no other connection holds the write lock
LockFree(p) == \A q \in Callers \ {p} : ~txn[q].active

Init ==
    /\ db = EmptyDb
    /\ txn = [p \in Callers |-> NoTxn]
    /\ pc = [p \in Callers |-> "idle"]
    /\ op = [p \in Callers |-> "none"]
    /\ arg = [p \in Callers |-> None]
    /\ frames = [p \in Callers |-> <<>>]
    /\ conns = [p \in Callers |-> <<>>]
    /\ invoice_id = [p \in Callers |-> None]
    /\ row = [p \in Callers |-> None]
    /\ items_rows = [p \in Callers |-> <<>>]
    /\ rows = [p \in Callers |-> <<>>]
    /\ idx = [p \in Callers |-> 0]
    /\ invoices = [p \in Callers |-> <<>>]
    /\ ret = [p \in Callers |-> None]
    /\ last = <<>>
    /\ db0 = [p \in Callers |-> EmptyDb]

(***************************************************************************)
(* get_db: connect, yield to the body, commit, and close in the finally.   *)
(***************************************************************************)
\* faulty variant: the commit sits in the finally
AfterBody_CommitAlways(raised) == "commit"

\* where control goes when the with-body ends: to conn.commit() when it
\* ended normally, straight to the finally when it raised
AfterBody(raised) == IF raised THEN "close" ELSE "commit"

\* faulty variant: the connection is not closed
Closed_Leaked(cs) == cs

\* conn.close(): the scope's connection is gone
Closed(cs) == Pop(cs)

\* the first statement of each function's with-body
BodyStart(fn) ==
    CASE fn = "init_db"                -> "i_invoices"
      [] fn = "save_inv_extraction"    -> "s_invoice"
      [] fn = "getInvoiceById"         -> "g_invoice"
      [] fn = "get_invoices_by_vendor" -> "v_select"

\* conn = sqlite3.connect(DB_PATH)
Connect(p) ==
    /\ pc[p] = "connect"
    /\ conns' = [conns EXCEPT ![p] = Append(@, [raised |-> FALSE, committed |-> FALSE])]
    /\ pc' = [pc EXCEPT ![p] = BodyStart(Top(frames[p]))]
    /\ UNCHANGED <<db, txn, op, arg, frames, locals, ret, last, db0>>

\* the body raises exc: the exception leaves the with-body
Raises(p, exc) ==
    /\ conns' = [conns EXCEPT ![p] = [@ EXCEPT ![Len(@)].raised = TRUE]]
    /\ ret' = [ret EXCEPT ![p] = Exception(exc)]
    /\ pc' = [pc EXCEPT ![p] = AfterBody(TRUE)]

\* the stored InvoiceId a saved result is filed under
StoredId(id) == TextAffinity(Bind(id))

\* conn.commit(): the connection's open transaction, if any, becomes the
\* committed store
Commit(p) ==
    /\ pc[p] = "commit"
    /\ conns' = [conns EXCEPT ![p] = [@ EXCEPT ![Len(@)].committed = TRUE]]
    /\ IF txn[p].active
       THEN /\ db' = txn[p].db
            /\ txn' = [txn EXCEPT ![p] = NoTxn]
            /\ last' = [k \in DOMAIN last \cup {StoredId(invoice_id[p])} |->
                          IF k = StoredId(invoice_id[p]) THEN arg[p] ELSE last[k]]
       ELSE UNCHANGED <<db, txn, last>>
    /\ pc' = [pc EXCEPT ![p] = "close"]
    /\ UNCHANGED <<op, arg, frames, locals, ret, db0>>

\* conn.close() in the finally: an open transaction is rolled back; then
\* the exception goes on, or the function goes on after its with block
Close(p) ==
    /\ pc[p] = "close"
    /\ conns' = [conns EXCEPT ![p] = Closed(@)]
    /\ txn' = [txn EXCEPT ![p] = NoTxn]
    /\ LET fn == Top(frames[p]) IN
       IF Top(conns[p]).raised
       THEN /\ pc' = [pc EXCEPT ![p] = "raise"]
            /\ UNCHANGED ret
       ELSE CASE fn = "getInvoiceById" /\ Truthy(row[p]) ->
                   /\ pc' = [pc EXCEPT ![p] = "g_build"]
                   /\ UNCHANGED ret
              [] fn = "get_invoices_by_vendor" ->
                   /\ pc' = [pc EXCEPT ![p] = "return"]
                   /\ ret' = [ret EXCEPT ![p] = PyList(invoices[p])]
              [] OTHER ->
                   /\ pc' = [pc EXCEPT ![p] = "return"]
                   /\ ret' = [ret EXCEPT ![p] = None]
    /\ UNCHANGED <<db, op, arg, frames, locals, last, db0>>

\* the caller's locals after its operation ended
Reset(p) ==
    /\ invoice_id' = [invoice_id EXCEPT ![p] = None]
    /\ row' = [row EXCEPT ![p] = None]
    /\ items_rows' = [items_rows EXCEPT ![p] = <<>>]
    /\ rows' = [rows EXCEPT ![p] = <<>>]
    /\ idx' = [idx EXCEPT ![p] = 0]
    /\ invoices' = [invoices EXCEPT ![p] = <<>>]
    /\ ret' = [ret EXCEPT ![p] = None]
    /\ db0' = [db0 EXCEPT ![p] = EmptyDb]

\* the function returns ret: to the caller of the module, or into
\* get_invoices_by_vendor's loop (invoices.append(getInvoiceById(...)))
Return(p) ==
    /\ pc[p] = "return"
    /\ frames' = [frames EXCEPT ![p] = Pop(@)]
    /\ IF Len(frames[p]) = 1
       THEN /\ pc' = [pc EXCEPT ![p] = "idle"]
            /\ Reset(p)
       ELSE /\ pc' = [pc EXCEPT ![p] = "v_loop"]
            /\ invoices' = [invoices EXCEPT ![p] = Append(@, ret[p])]
            /\ idx' = [idx EXCEPT ![p] = @ + 1]
            /\ row' = [row EXCEPT ![p] = None]
            /\ items_rows' = [items_rows EXCEPT ![p] = <<>>]
            /\ ret' = [ret EXCEPT ![p] = None]
            /\ UNCHANGED <<invoice_id, rows, db0>>
    /\ UNCHANGED <<db, txn, op, arg, conns, last>>

\* the exception leaves the function: to the caller of the module, or into
\* the with-body of get_invoices_by_vendor
Raise(p) ==
    /\ pc[p] = "raise"
    /\ frames' = [frames EXCEPT ![p] = Pop(@)]
    /\ IF Len(frames[p]) = 1
       THEN /\ pc' = [pc EXCEPT ![p] = "idle"]
            /\ Reset(p)
            /\ UNCHANGED conns
       ELSE /\ conns' = [conns EXCEPT ![p] = [@ EXCEPT ![Len(@)].raised = TRUE]]
            /\ pc' = [pc EXCEPT ![p] = AfterBody(TRUE)]
            /\ UNCHANGED <<locals, ret, db0>>
    /\ UNCHANGED <<db, txn, op, arg, last>>

(***************************************************************************)
(* Calls of the module's four operations.                                  *)
(***************************************************************************)
Call(p, name, fn, x, entry) ==
    /\ pc[p] = "idle"
    /\ op' = [op EXCEPT ![p] = name]
    /\ arg' = [arg EXCEPT ![p] = x]
    /\ frames' = [frames EXCEPT ![p] = <<fn>>]
    /\ pc' = [pc EXCEPT ![p] = entry]
    /\ db0' = [db0 EXCEPT ![p] = db]

Call_init_db(p) ==
    /\ Call(p, "init_db", "init_db", None, "connect")
    /\ UNCHANGED <<db, txn, conns, locals, ret, last>>

Call_save_inv_extraction(p, result) ==
    /\ Call(p, "save_inv_extraction", "save_inv_extraction", result, "s_entry")
    /\ UNCHANGED <<db, txn, conns, locals, ret, last>>

Call_getInvoiceById(p, id) ==
    /\ Call(p, "getInvoiceById", "getInvoiceById", id, "connect")
    /\ invoice_id' = [invoice_id EXCEPT ![p] = id]
    /\ UNCHANGED <<db, txn, conns, row, items_rows, rows, idx, invoices, ret, last>>

Call_get_invoices_by_vendor(p, vendor_name) ==
    /\ Call(p, "get_invoices_by_vendor", "get_invoices_by_vendor", vendor_name, "connect")
    /\ UNCHANGED <<db, txn, conns, locals, ret, last>>

(***************************************************************************)
(* Statements.  A statement is prepared (its table must exist), its        *)
(* parameters are bound, and a writing statement needs the write lock: a   *)
(* connection that finds it held gives up with "database is locked" when   *)
(* its busy timeout ends (or is simply not scheduled until it is free).    *)
(***************************************************************************)
ReadError(p, table, params) ==
    IF table \notin View(p).tables THEN "OperationalError: no such table"
    ELSE IF ~AllBindable(params) THEN "ProgrammingError: type is not supported"
    ELSE ""

WriteError(p, table, params) ==
    IF ReadError(p, table, params) /= "" THEN ReadError(p, table, params)
    ELSE IF ~LockFree(p) THEN "OperationalError: database is locked"
    ELSE ""

\* caller p's connection writes: its transaction, begun by the first INSERT,
\* now holds the store d
Writes(p, d) == txn' = [txn EXCEPT ![p] = [active |-> TRUE, db |-> d]]

(***************************************************************************)
(* init_db: three CREATE TABLE IF NOT EXISTS, each its own transaction     *)
(* (sqlite3 opens none before a CREATE).                                   *)
(***************************************************************************)
CreateTable(p, at, table, next) ==
    /\ pc[p] = at
    /\ IF table \in db.tables
       THEN /\ pc' = [pc EXCEPT ![p] = next]
            /\ UNCHANGED <<db, conns, ret>>
       ELSE IF ~LockFree(p)
       THEN /\ Raises(p, "OperationalError: database is locked")
            /\ UNCHANGED db
       ELSE /\ db' = [db EXCEPT !.tables = @ \cup {table}]
            /\ pc' = [pc EXCEPT ![p] = next]
            /\ UNCHANGED <<conns, ret>>
    /\ UNCHANGED <<txn, op, arg, frames, locals, last, db0>>

Init_invoices(p) == CreateTable(p, "i_invoices", "invoices", "i_confidences")

Init_confidences(p) == CreateTable(p, "i_confidences", "confidences", "i_items")

Init_items(p) == CreateTable(p, "i_items", "items", AfterBody(FALSE))

(***************************************************************************)
(* save_inv_extraction                                                     *)
(***************************************************************************)
\* faulty variant: `if invoice_id is not None:`
SaveGuard_NotNone(id) == id /= None

\* `if invoice_id:`
SaveGuard(id) == Truthy(id)

\* result.get("data", {}), result.get("dataConfidence", {})
DataOf(result) == DictGet(result, "data", EmptyDict)
ConfidenceOf(result) == DictGet(result, "dataConfidence", EmptyDict)

\* the parameters of an INSERT: the id, then d.get(field) for the others
Params(fields, id, d) ==
    [i \in 1..Len(fields) |-> IF i = 1 THEN id ELSE DictGet(d, fields[i], None)]

\* lines 93-97: data.get on a data that is no mapping raises; without a
\* truthy InvoiceId the function falls off its end
Save_entry(p) ==
    /\ pc[p] = "s_entry"
    /\ IF ~HasGet(DataOf(arg[p]))
       THEN /\ pc' = [pc EXCEPT ![p] = "raise"]
            /\ ret' = [ret EXCEPT ![p] = Exception("AttributeError")]
            /\ UNCHANGED invoice_id
       ELSE LET id == DictGet(DataOf(arg[p]), "InvoiceId", None) IN
            /\ invoice_id' = [invoice_id EXCEPT ![p] = id]
            /\ pc' = [pc EXCEPT ![p] = IF SaveGuard(id) THEN "connect" ELSE "return"]
            /\ UNCHANGED ret
    /\ UNCHANGED <<db, txn, op, arg, frames, conns, row, items_rows, rows, idx,
                   invoices, last, db0>>

\* INSERT OR REPLACE INTO invoices
Save_invoice(p) ==
    /\ pc[p] = "s_invoice"
    /\ LET params == Params(InvoiceFields, invoice_id[p], DataOf(arg[p]))
           exc == WriteError(p, "invoices", params)
       IN IF exc /= ""
          THEN Raises(p, exc) /\ UNCHANGED txn
          ELSE /\ Writes(p, WriteInvoices(View(p), StoredRow(InvoiceTypes, params)))
               /\ pc' = [pc EXCEPT ![p] = "s_confidence"]
               /\ UNCHANGED <<conns, ret>>
    /\ UNCHANGED <<db, op, arg, frames, locals, last, db0>>

\* INSERT OR REPLACE INTO confidences
Save_confidence(p) ==
    /\ pc[p] = "s_confidence"
    /\ IF ~HasGet(ConfidenceOf(arg[p]))
       THEN Raises(p, "AttributeError") /\ UNCHANGED txn
       ELSE LET params == Params(InvoiceFields, invoice_id[p], ConfidenceOf(arg[p]))
                exc == WriteError(p, "confidences", params)
            IN IF exc /= ""
               THEN Raises(p, exc) /\ UNCHANGED txn
               ELSE /\ Writes(p, WriteConfidences(View(p), StoredRow(ConfidenceTypes, params)))
                    /\ pc' = [pc EXCEPT ![p] = "s_delete"]
                    /\ UNCHANGED <<conns, ret>>
    /\ UNCHANGED <<db, op, arg, frames, locals, last, db0>>

\* data.get("Items", [])
LineItems(result) == DictGet(DataOf(result), "Items", EmptyList)

\* DELETE FROM items WHERE InvoiceId = ?, and the start of the for loop
Save_delete(p) ==
    /\ pc[p] = "s_delete"
    /\ LET line_items == LineItems(arg[p])
           exc == WriteError(p, "items", <<invoice_id[p]>>)
       IN IF exc /= ""
          THEN Raises(p, exc) /\ UNCHANGED <<txn, idx>>
          ELSE /\ Writes(p, [View(p) EXCEPT !.items = DeleteWhereId(@, invoice_id[p])])
               /\ IF ~Iterable(line_items)
                  THEN Raises(p, "TypeError") /\ UNCHANGED idx
                  ELSE /\ pc' = [pc EXCEPT ![p] =
                                   IF line_items.v = <<>> THEN AfterBody(FALSE) ELSE "s_item"]
                       /\ idx' = [idx EXCEPT ![p] = 1]
                       /\ UNCHANGED <<conns, ret>>
    /\ UNCHANGED <<db, op, arg, frames, invoice_id, row, items_rows, rows,
                   invoices, last, db0>>

\* one turn of the for loop: INSERT INTO items
Save_item(p) ==
    /\ pc[p] = "s_item"
    /\ LET line_items == LineItems(arg[p]).v
           item == line_items[idx[p]]
       IN IF ~HasGet(item)
          THEN Raises(p, "AttributeError") /\ UNCHANGED <<txn, idx>>
          ELSE LET params == Params(ItemFields, invoice_id[p], item)
                   exc == WriteError(p, "items", params)
               IN IF exc /= ""
                  THEN Raises(p, exc) /\ UNCHANGED <<txn, idx>>
                  ELSE /\ Writes(p, [View(p) EXCEPT !.items =
                                        Append(@, StoredRow(ItemTypes, params))])
                       /\ idx' = [idx EXCEPT ![p] = @ + 1]
                       /\ pc' = [pc EXCEPT ![p] =
                                   IF idx[p] = Len(line_items)
                                   THEN AfterBody(FALSE) ELSE "s_item"]
                       /\ UNCHANGED <<conns, ret>>
    /\ UNCHANGED <<db, op, arg, frames, invoice_id, row, items_rows, rows,
                   invoices, last, db0>>

(***************************************************************************)
(* getInvoiceById: two SELECTs, each its own read of the committed store.  *)
(***************************************************************************)
\* SELECT * FROM invoices WHERE InvoiceId = ?; fetchone(); return None
\* from inside the with block when there is no row
Get_invoice(p) ==
    /\ pc[p] = "g_invoice"
    /\ LET exc == ReadError(p, "invoices", <<invoice_id[p]>>)
           found == SelectWhereId(View(p).invoices, invoice_id[p])
       IN IF exc /= ""
          THEN Raises(p, exc) /\ UNCHANGED row
          ELSE IF found = <<>>
          THEN /\ row' = [row EXCEPT ![p] = None]
               /\ ret' = [ret EXCEPT ![p] = None]
               /\ pc' = [pc EXCEPT ![p] = AfterBody(FALSE)]
               /\ UNCHANGED conns
          ELSE /\ row' = [row EXCEPT ![p] = PyTuple(found[1])]
               /\ pc' = [pc EXCEPT ![p] = "g_items"]
               /\ UNCHANGED <<conns, ret>>
    /\ UNCHANGED <<db, txn, op, arg, frames, invoice_id, items_rows, rows, idx,
                   invoices, last, db0>>

\* SELECT Description, Name, Quantity, UnitPrice, Amount FROM items
\* WHERE InvoiceId = ?; fetchall()
Get_items(p) ==
    /\ pc[p] = "g_items"
    /\ LET exc == ReadError(p, "items", <<invoice_id[p]>>)
       IN IF exc /= ""
          THEN Raises(p, exc) /\ UNCHANGED items_rows
          ELSE /\ items_rows' = [items_rows EXCEPT ![p] =
                                   SelectWhereId(View(p).items, invoice_id[p])]
               /\ pc' = [pc EXCEPT ![p] = AfterBody(FALSE)]
               /\ UNCHANGED <<conns, ret>>
    /\ UNCHANGED <<db, txn, op, arg, frames, invoice_id, row, rows, idx,
                   invoices, last, db0>>

\* lines 191-211: the items list and the returned dict
Get_build(p) ==
    /\ pc[p] = "g_build"
    /\ ret' = [ret EXCEPT ![p] = InvoiceDict(row[p], items_rows[p])]
    /\ pc' = [pc EXCEPT ![p] = "return"]
    /\ UNCHANGED <<db, txn, op, arg, frames, conns, locals, last, db0>>

(***************************************************************************)
(* get_invoices_by_vendor                                                  *)
(***************************************************************************)
\* select InvoiceId from invoices where VendorName = ?; fetchall()
Vendor_select(p) ==
    /\ pc[p] = "v_select"
    /\ LET exc == ReadError(p, "invoices", <<arg[p]>>)
       IN IF exc /= ""
          THEN Raises(p, exc) /\ UNCHANGED <<rows, idx, invoices>>
          ELSE /\ rows' = [rows EXCEPT ![p] = SelectIdsByVendor(View(p).invoices, arg[p])]
               /\ invoices' = [invoices EXCEPT ![p] = <<>>]
               /\ idx' = [idx EXCEPT ![p] = 1]
               /\ pc' = [pc EXCEPT ![p] = "v_loop"]
               /\ UNCHANGED <<conns, ret>>
    /\ UNCHANGED <<db, txn, op, arg, frames, invoice_id, row, items_rows, last, db0>>

\* for r in rows: getInvoiceById(r[0]) is called, on a connection of its
\* own, while this function's connection stays open
Vendor_loop(p) ==
    /\ pc[p] = "v_loop"
    /\ IF idx[p] > Len(rows[p])
       THEN /\ pc' = [pc EXCEPT ![p] = AfterBody(FALSE)]
            /\ UNCHANGED <<frames, invoice_id>>
       ELSE /\ invoice_id' = [invoice_id EXCEPT ![p] = rows[p][idx[p]]]
            /\ frames' = [frames EXCEPT ![p] = Append(@, "getInvoiceById")]
            /\ pc' = [pc EXCEPT ![p] = "connect"]
    /\ UNCHANGED <<db, txn, op, arg, conns, row, items_rows, rows, idx, invoices,
                   ret, last, db0>>

(***************************************************************************)
(* Inputs.                                                                 *)
(***************************************************************************)
\* the longest Items list drawn
MaxItems == 2

\* line items: the one of the round-trip example, one with fields absent,
\* one whose values are not of their columns' types, and one that is no
\* mapping
Widget == PyDict([Description |-> PyStr("Widget"), Quantity |-> PyInt("2"),
                  UnitPrice |-> PyFloat("5.0"), Amount |-> PyFloat("10.0")])
Gadget == PyDict([Description |-> PyStr("Gadget"), Name |-> PyStr("G-1")])
OddItem == PyDict([Description |-> PyInt("7"), Quantity |-> PyStr("2"),
                   UnitPrice |-> PyStr("n/a"), Amount |-> NaN])
BadItem == PyStr("oops")

ItemLists == UNION {[1..n -> {Widget, Gadget}] : n \in 0..MaxItems}

FullConfidence ==
    PyDict([VendorName |-> PyFloat("0.9"), InvoiceDate |-> PyFloat("0.9"),
            InvoiceTotal |-> PyFloat("0.9")])

\* an extraction result with every header field
FullData(id, vendor, items) ==
    PyDict([InvoiceId |-> id, VendorName |-> vendor,
            InvoiceDate |-> PyStr("2024-01-31"),
            BillingAddressRecipient |-> PyStr("Bob"),
            ShippingAddress |-> PyStr("1 Main St"),
            SubTotal |-> PyFloat("100.0"), ShippingCost |-> PyInt("5"),
            InvoiceTotal |-> PyFloat("123.45"), Items |-> items])

Full(id, vendor, items) ==
    PyDict([confidence |-> PyFloat("0.9"), data |-> FullData(id, vendor, items),
            dataConfidence |-> FullConfidence])

\* only the key: no other field, no Items, no dataConfidence
Sparse(id) == PyDict([data |-> PyDict([InvoiceId |-> id])])

\* values that are not of their columns' types
Odd ==
    PyDict([data |-> PyDict([InvoiceId |-> PyInt("7"), VendorName |-> PyInt("5"),
                             InvoiceDate |-> PyFloat("5.0"), SubTotal |-> PyInt("100"),
                             ShippingCost |-> PyStr("5"), InvoiceTotal |-> PyStr("abc"),
                             Items |-> PyList(<<OddItem>>)]),
            dataConfidence |-> PyDict([VendorName |-> PyStr("0.9")])])

\* results that save: the first id with every Items list, a second vendor
\* and a sparse payload; the second id as text and as a number; a third id
GoodResults ==
    {Full(PyStr("INV-1"), PyStr("Acme"), PyList(l)) : l \in ItemLists}
    \cup {Full(PyStr("INV-1"), PyStr("Other"), PyList(<<Widget>>)),
          Sparse(PyStr("INV-1")),
          Full(PyStr("7"), PyStr("Acme"), PyList(<<Gadget>>)),
          Odd,
          Full(PyStr("INV-2"), PyStr("Other"), PyList(<<>>))}

\* results without a usable InvoiceId
NoIdResults ==
    {PyDict(<<>>),
     PyDict([dataConfidence |-> FullConfidence]),
     PyDict([data |-> PyDict([VendorName |-> PyStr("Acme"),
                              Items |-> PyList(<<Widget>>)]),
             dataConfidence |-> None]),
     Full(None, PyStr("Acme"), PyList(<<BadItem>>)),
     Full(PyStr(""), PyList(<<>>), PyList(<<Widget>>)),
     Full(PyInt("0"), PyStr("Acme"), None)}

\* results whose save fails: at the entry, at the invoice row, at the
\* confidence row, at the start of the loop and at the second item
BadResults ==
    {PyDict([data |-> None]),
     Full(PyStr("INV-1"), PyList(<<PyStr("Acme")>>), PyList(<<Widget>>)),
     PyDict([data |-> FullData(PyStr("INV-1"), PyStr("Other"), PyList(<<Gadget>>)),
             dataConfidence |-> None]),
     Full(PyStr("INV-1"), PyStr("Other"), None),
     Full(PyStr("INV-1"), PyStr("Other"), PyList(<<Gadget, BadItem>>)),
     Full(PyInt("7"), PyStr("Other"), PyList(<<BadItem>>))}

Results == GoodResults \cup NoIdResults \cup BadResults

Ids == {PyStr("INV-1"), PyStr("7"), PyInt("7"), PyStr("INV-9")}

Vendors == {PyStr("Acme"), PyStr("Other"), PyInt("5"), None}

\* the inputs of two callers running at once: two saves of one id that
\* differ in vendor and items, and the reads of that id and vendor
ConcResults == {Full(PyStr("INV-1"), PyStr("Acme"), PyList(<<Widget>>)),
                Full(PyStr("INV-1"), PyStr("Other"), PyList(<<Gadget>>))}
ConcIds == {PyStr("INV-1")}
ConcVendors == {PyStr("Acme")}

(***************************************************************************)
(* The specifications: one caller with the full inputs, and two callers    *)
(* whose statements interleave.                                            *)
(***************************************************************************)
Step(p, results, ids, vendors) ==
    \/ Call_init_db(p)
    \/ \E result \in results : Call_save_inv_extraction(p, result)
    \/ \E id \in ids : Call_getInvoiceById(p, id)
    \/ \E vendor_name \in vendors : Call_get_invoices_by_vendor(p, vendor_name)
    \/ Connect(p)
    \/ Commit(p)
    \/ Close(p)
    \/ Return(p)
    \/ Raise(p)
    \/ Init_invoices(p)
    \/ Init_confidences(p)
    \/ Init_items(p)
    \/ Save_entry(p)
    \/ Save_invoice(p)
    \/ Save_confidence(p)
    \/ Save_delete(p)
    \/ Save_item(p)
    \/ Get_invoice(p)
    \/ Get_items(p)
    \/ Get_build(p)
    \/ Vendor_select(p)
    \/ Vendor_loop(p)

Next == Step("c1", Results, Ids, Vendors)

Spec == Init /\ [][Next]_vars

NextConc == \E p \in Callers : Step(p, ConcResults, ConcIds, ConcVendors)

SpecConc == Init /\ [][NextConc]_vars

(***************************************************************************)
(* What the properties speak of.                                           *)
(***************************************************************************)
\* caller p's operation name has done all its work and is about to hand its
\* value, or its exception, to the caller of the module
Returning(p, name) == pc[p] = "return" /\ Len(frames[p]) = 1 /\ op[p] = name
Raising(p, name)   == pc[p] = "raise" /\ Len(frames[p]) = 1 /\ op[p] = name

\* the stored InvoiceIds of a table
KeysOf(table) == {table[i][1] : i \in 1..Len(table)}

\* the rows of a table stored under key k
RowsOf(table, k) == SelectSeq(table, LAMBDA r : r[1] = k)

\* a result whose data is missing, lacks InvoiceId, or has None, the empty
\* string or 0 as InvoiceId
NoUsableId(result) ==
    \/ "data" \notin DOMAIN result.v
    \/ /\ result.v["data"].t = "dict"
       /\ \/ "InvoiceId" \notin DOMAIN result.v["data"].v
          \/ result.v["data"].v["InvoiceId"] \in {None, PyStr(""), PyInt("0")}

\* the value a column of the given type holds, and a read returns, after
\* input x was saved into it
Kept(type, x) == Affinity(type, Bind(x))

\* the invoices row, the confidences row and the items rows that a saved
\* result leaves under key k
InvoiceRowOf(k, result) ==
    [i \in 1..8 |-> IF i = 1 THEN k
                    ELSE Kept(InvoiceTypes[i], DictGet(DataOf(result), InvoiceFields[i], None))]
ConfidenceRowOf(k, result) ==
    [i \in 1..8 |-> IF i = 1 THEN k
                    ELSE Kept("REAL", DictGet(ConfidenceOf(result), InvoiceFields[i], None))]
ItemRowsOf(k, result) ==
    LET l == LineItems(result).v IN
    [n \in 1..Len(l) |->
        [i \in 1..6 |-> IF i = 1 THEN k
                        ELSE Kept(ItemTypes[i], DictGet(l[n], ItemFields[i], None))]]

\* the structure a read of key k returns after result was saved under it
InvoiceOf(k, result) ==
    LET r == InvoiceRowOf(k, result)
        it == ItemRowsOf(k, result)
    IN PyDict([f \in {InvoiceFields[i] : i \in 1..8} \cup {"Items"} |->
                 IF f = "Items"
                 THEN PyList([n \in 1..Len(it) |->
                        PyDict([g \in {ItemFields[i] : i \in 2..6} |->
                                  it[n][FieldIndex(ItemFields, g)]])])
                 ELSE r[FieldIndex(InvoiceFields, f)]])

\* input x is of the type of its column: text for a TEXT column, a number
\* (not NaN) for a REAL column, or null
OfColumnType(type, x) ==
    \/ x = None
    \/ type = "TEXT" /\ x.t = "str"
    \/ type = "REAL" /\ IsNumber(x) /\ x /= NaN

\* read structure got equals, field by field (Python ==), the inputs of
\* result on the fields that satisfy Covered(type, input)
FieldsEqualInputs(got, result, Covered(_, _)) ==
    LET data == DataOf(result)
        l == LineItems(result).v
    IN /\ got.t = "dict"
       /\ \A i \in 1..8 :
            Covered(InvoiceTypes[i], DictGet(data, InvoiceFields[i], None)) =>
              PyEq(got.v[InvoiceFields[i]], DictGet(data, InvoiceFields[i], None))
       /\ Len(got.v["Items"].v) = Len(l)
       /\ \A n \in 1..Len(l) : \A i \in 2..6 :
            Covered(ItemTypes[i], DictGet(l[n], ItemFields[i], None)) =>
              PyEq(got.v["Items"].v[n].v[ItemFields[i]], DictGet(l[n], ItemFields[i], None))

AnyInput(type, x) == TRUE

\* what a reader may tell of a store: per InvoiceId, its rows in each table
Observable(d) ==
    [k \in KeysOf(d.invoices) \cup KeysOf(d.confidences) \cup KeysOf(d.items) |->
        <<RowsOf(d.invoices, k), RowsOf(d.confidences, k), RowsOf(d.items, k)>>]

(***************************************************************************)
(* C1.  A save whose result has no data, no InvoiceId or a falsy InvoiceId *)
(* opens no connection, raises nothing, returns None and leaves the three  *)
(* tables as they were when it was called, whatever dataConfidence and     *)
(* Items hold.                                                             *)
(***************************************************************************)
C1_NoIdIsNoOp ==
    \A p \in Callers :
        (op[p] = "save_inv_extraction" /\ NoUsableId(arg[p])) =>
            /\ pc[p] \in {"s_entry", "return", "idle"}
            /\ conns[p] = <<>>
            /\ ~txn[p].active
            /\ pc[p] = "return" => (ret[p] = None /\ db = db0[p])

C1_Witness ==
    \E p \in Callers :
        /\ Returning(p, "save_inv_extraction")
        /\ arg[p] = Full(PyInt("0"), PyStr("Acme"), None)
        /\ db.invoices /= <<>> /\ db.items /= <<>>

(***************************************************************************)
(* C2.  A save that failed, at whatever statement, does not return: it     *)
(* raises to its caller, and from the failure on the committed store is    *)
(* the store of the time of the call, with nothing left open.              *)
(***************************************************************************)
C2_FailedSaveLeavesStore ==
    \A p \in Callers :
        (op[p] = "save_inv_extraction" /\ ret[p].t = "exception") =>
            /\ pc[p] /= "return"
            /\ db = db0[p]
            /\ pc[p] = "raise" => (conns[p] = <<>> /\ ~txn[p].active)

C2_Witness ==
    \E p \in Callers :
        /\ Raising(p, "save_inv_extraction")
        /\ arg[p] = Full(PyStr("INV-1"), PyStr("Other"), PyList(<<Gadget, BadItem>>))
        /\ Len(RowsOf(db.items, PyStr("INV-1"))) = 2
        /\ RowsOf(db.invoices, PyStr("INV-1"))[1][2] = PyStr("Acme")

(***************************************************************************)
(* C3.  The committed items rows of an InvoiceId are the entries of Items  *)
(* of the last successful save of that id, one row each, in input order,   *)
(* none when Items was absent or empty; there are no other items rows.     *)
(***************************************************************************)
C3_ItemsAreLastSave ==
    /\ KeysOf(db.items) \subseteq DOMAIN last
    /\ \A k \in DOMAIN last : RowsOf(db.items, k) = ItemRowsOf(k, last[k])

C3_Witness ==
    \E p \in Callers :
        /\ Returning(p, "save_inv_extraction")
        /\ Len(RowsOf(db0[p].items, PyStr("INV-1"))) = 2
        /\ arg[p] = Full(PyStr("INV-1"), PyStr("Acme"), PyList(<<Gadget>>))
        /\ Len(RowsOf(db.items, PyStr("INV-1"))) = 1
        /\ RowsOf(db.items, PyStr("7")) /= <<>>
        /\ RowsOf(db.items, PyStr("7")) = RowsOf(db0[p].items, PyStr("7"))

(***************************************************************************)
(* C4.  The committed store has exactly one invoices row and one           *)
(* confidences row per saved InvoiceId, each made of the last successful   *)
(* save of that id alone (null where that result has no field); and a save *)
(* of a result whose rows the store already holds leaves what can be       *)
(* observed of the store as it was.                                        *)
(***************************************************************************)
C4_IdempotentUpsert ==
    /\ KeysOf(db.invoices) \cup KeysOf(db.confidences) \subseteq DOMAIN last
    /\ \A k \in DOMAIN last :
         /\ RowsOf(db.invoices, k) = <<InvoiceRowOf(k, last[k])>>
         /\ RowsOf(db.confidences, k) = <<ConfidenceRowOf(k, last[k])>>
    /\ \A p \in Callers :
         LET k == StoredId(invoice_id[p]) IN
         (/\ Returning(p, "save_inv_extraction")
          /\ ~NoUsableId(arg[p])
          /\ k \in DOMAIN Observable(db0[p])
          /\ Observable(db0[p])[k] = <<(<<InvoiceRowOf(k, arg[p])>>),
                                       (<<ConfidenceRowOf(k, arg[p])>>),
                                       ItemRowsOf(k, arg[p])>>)
         => Observable(db) = Observable(db0[p])

C4_Witness ==
    \E p \in Callers :
        /\ Returning(p, "save_inv_extraction")
        /\ arg[p] = Full(PyStr("INV-1"), PyStr("Acme"), PyList(<<Widget, Gadget>>))
        /\ Observable(db) = Observable(db0[p])
        /\ db /= db0[p]
        /\ Len(db.invoices) = 3

(***************************************************************************)
(* C5.  Every get_db scope is closed before its function returns or        *)
(* raises; a scope whose body raised is never committed; a scope whose     *)
(* body ended normally (the early return of getInvoiceById included) is    *)
(* committed before it is closed.                                          *)
(***************************************************************************)
C5_ScopeDiscipline ==
    \A p \in Callers :
        /\ pc[p] = "idle" => conns[p] = <<>>
        /\ pc[p] \in {"return", "raise", "g_build"} => Len(conns[p]) = Len(frames[p]) - 1
        /\ Len(conns[p]) <= Len(frames[p])
        /\ \A i \in 1..Len(conns[p]) : ~(conns[p][i].raised /\ conns[p][i].committed)
        /\ pc[p] = "close" => (Top(conns[p]).committed <=> ~Top(conns[p]).raised)

C5_Witness ==
    \E p \in Callers :
        /\ pc[p] = "return"
        /\ frames[p] = <<"get_invoices_by_vendor", "getInvoiceById">>
        /\ Len(conns[p]) = 1
        /\ ret[p] /= None

(***************************************************************************)
(* C6.  A read of an id returns what the last successful save of that id   *)
(* left: each field as its column keeps the input, equal to the input      *)
(* where the input is of the column's type, and one item per saved item,   *)
(* in order; None for an id never saved.                                   *)
(***************************************************************************)
C6_ReadReturnsKept ==
    \A p \in Callers :
        Returning(p, "getInvoiceById") =>
            LET k == StoredId(arg[p]) IN
            IF k \in DOMAIN last
            THEN /\ ret[p] = InvoiceOf(k, last[k])
                 /\ FieldsEqualInputs(ret[p], last[k], OfColumnType)
            ELSE ret[p] = None

C6_Witness ==
    \E p \in Callers :
        /\ Returning(p, "getInvoiceById")
        /\ arg[p] = PyStr("INV-1")
        /\ PyStr("INV-1") \in DOMAIN last
        /\ ret[p] /= None
        /\ last[PyStr("INV-1")] = Full(PyStr("INV-1"), PyStr("Acme"), PyList(<<Widget>>))
        /\ RowsOf(db.items, PyStr("7")) /= <<>>
        /\ ret[p].v["InvoiceTotal"] = PyFloat("123.45")
        /\ Len(ret[p].v["Items"].v) = 1

\* C6 as claimed: every field of the structure read equals the input given
\* for it, whatever the input's type
C6_ReadEqualsInputs ==
    \A p \in Callers :
        (Returning(p, "getInvoiceById") /\ StoredId(arg[p]) \in DOMAIN last) =>
            FieldsEqualInputs(ret[p], last[StoredId(arg[p])], AnyInput)

(***************************************************************************)
(* C7.  With one caller, get_invoices_by_vendor(v) returns one structure   *)
(* per stored invoice whose last save gave a VendorName that the store     *)
(* keeps equal to v, each the full structure of that invoice, none twice   *)
(* and none else.                                                          *)
(***************************************************************************)
VendorKept(result) == Kept("TEXT", DictGet(DataOf(result), "VendorName", None))

C7_VendorLookupExact ==
    \A p \in Callers :
        Returning(p, "get_invoices_by_vendor") =>
            LET res == ret[p].v IN
            /\ \A i \in 1..Len(res) : res[i].t = "dict"
            /\ {res[i].v["InvoiceId"] : i \in 1..Len(res)} =
                 {k \in DOMAIN last : SqlTextEq(VendorKept(last[k]), arg[p])}
            /\ \A i, j \in 1..Len(res) :
                 res[i].v["InvoiceId"] = res[j].v["InvoiceId"] => i = j
            /\ \A i \in 1..Len(res) :
                 res[i] = InvoiceOf(res[i].v["InvoiceId"], last[res[i].v["InvoiceId"]])

C7_Witness ==
    \E p \in Callers :
        /\ Returning(p, "get_invoices_by_vendor")
        /\ arg[p] = PyStr("Acme")
        /\ Len(ret[p].v) = 2
        /\ Len(db.invoices) = 3
        /\ \E i \in 1..2 : ret[p].v[i].v["Items"].v /= <<>>

(***************************************************************************)
(* C8.  In the committed store every confidences row and every items row   *)
(* has an invoices row of its InvoiceId.                                   *)
(***************************************************************************)
C8_ChildrenHaveParent ==
    /\ KeysOf(db.confidences) \subseteq KeysOf(db.invoices)
    /\ KeysOf(db.items) \subseteq KeysOf(db.invoices)

C8_Witness ==
    \E p \in Callers :
        /\ Raising(p, "save_inv_extraction")
        /\ arg[p] = PyDict([data |-> FullData(PyStr("INV-1"), PyStr("Other"), PyList(<<Gadget>>)),
                            dataConfidence |-> None])
        /\ Len(db.confidences) = 2
        /\ db.items /= <<>>

(***************************************************************************)
(* C9.  As claimed: with callers interleaved, every element that           *)
(* get_invoices_by_vendor(v) returns is a full structure whose VendorName  *)
(* is v.                                                                   *)
(***************************************************************************)
C9_VendorResultHasVendor ==
    \A p \in Callers :
        Returning(p, "get_invoices_by_vendor") =>
            \A i \in 1..Len(ret[p].v) :
                /\ ret[p].v[i] /= None
                /\ ret[p].v[i].v["VendorName"] = Kept("TEXT", arg[p])

(***************************************************************************)
(* C10.  As claimed: with callers interleaved, the structure that          *)
(* getInvoiceById returns is the header and the items of one and the same  *)
(* committed save.                                                         *)
(***************************************************************************)
C10_ReadIsSnapshot ==
    \A p \in Callers :
        (pc[p] = "return" /\ Top(frames[p]) = "getInvoiceById" /\ ret[p] /= None) =>
            \E result \in ConcResults :
                ret[p] = InvoiceOf(StoredId(invoice_id[p]), result)

====
